---------------------------- MODULE Spec2Model ----------------------------
(***************************************************************************)
(* Model of the AI code generation & review extension                      *)
(* (src/src/extension.ts, class AIConversationPanel).                      *)
(*                                                                         *)
(*  - Patch Engine: _saveGeneratedCode (regex scan of a generated text)    *)
(*    and _handleFileModification (append / modify / insert / delete).     *)
(*  - Conversation Driver: the continueConversation message handler,       *)
(*    _startCodeGeneration, _generateAndReview and _generateResponse.      *)
(*                                                                         *)
(* Text is modelled as a sequence of tokens.  A character of ordinary text *)
(* is one token; the fifty-dash delimiter and a brace-delimited metadata   *)
(* object are one token each, because the regular expression of            *)
(* _saveGeneratedCode treats them as units.  File contents are sequences   *)
(* of characters, with "nl" the newline and "sp" a blank.                  *)
(***************************************************************************)
EXTENDS Integers, Sequences, FiniteSets, TLC

(***************************************************************************)
(* Bounds of the model.                                                    *)
(***************************************************************************)
MaxStart == 3
MaxSegs == 2
MaxFileLines == 4
MaxIter == 2
MaxIterAlone == 4
MaxPanelOps == 5

\* the initial value of _maxIterations (extension.ts line 30)
DefaultMaxIterations == 10000

(***************************************************************************)
(* Small helpers.                                                          *)
(***************************************************************************)
Min(a, b) == IF a < b THEN a ELSE b
Max(a, b) == IF a > b THEN a ELSE b

RECURSIVE Concat(_)
Concat(ss) == IF ss = <<>> THEN <<>> ELSE Head(ss) \o Concat(Tail(ss))

(***************************************************************************)
(* Characters and strings.                                                 *)
(***************************************************************************)
\* \s of the regular expression and the characters String.prototype.trim removes
IsSpace(c) == c \in {"sp", "nl"}

\* String.prototype.trim
RECURSIVE TrimStart(_)
TrimStart(s) ==
    IF s = <<>> THEN s
    ELSE IF IsSpace(Head(s)) THEN TrimStart(Tail(s)) ELSE s

RECURSIVE TrimEnd(_)
TrimEnd(s) ==
    IF s = <<>> THEN s
    ELSE IF IsSpace(s[Len(s)]) THEN TrimEnd(SubSeq(s, 1, Len(s) - 1)) ELSE s

Trim(s) == TrimEnd(TrimStart(s))

\* String.prototype.split('\n'): the empty string gives one empty line
RECURSIVE Split(_)
Split(s) ==
    IF \A i \in 1..Len(s) : s[i] # "nl" THEN << s >>
    ELSE LET i == CHOOSE k \in 1..Len(s) :
                      s[k] = "nl" /\ \A j \in 1..(k - 1) : s[j] # "nl"
         IN  << SubSeq(s, 1, i - 1) >> \o Split(SubSeq(s, i + 1, Len(s)))

\* Array.prototype.join('\n'): the empty array gives the empty string
RECURSIVE Join(_)
Join(ls) ==
    IF ls = <<>> THEN <<>>
    ELSE IF Len(ls) = 1 THEN ls[1]
    ELSE ls[1] \o <<"nl">> \o Join(Tail(ls))

\* splice that removes one element fewer than asked
SpliceOneFewer(arr, start, deleteCount, items) ==
    LET s == Min(start, Len(arr))
        d == Min(Max(deleteCount - 1, 0), Len(arr) - s)
    IN  SubSeq(arr, 1, s) \o items \o SubSeq(arr, s + d + 1, Len(arr))

\* splice that starts one element late (a 1-based start taken as 0-based)
SpliceLate(arr, start, deleteCount, items) ==
    LET s == Min(start + 1, Len(arr))
        d == Min(Max(deleteCount, 0), Len(arr) - s)
    IN  SubSeq(arr, 1, s) \o items \o SubSeq(arr, s + d + 1, Len(arr))

\* splice that removes at least one element (an insert that overwrites)
SpliceAtLeastOne(arr, start, deleteCount, items) ==
    LET s == Min(start, Len(arr))
        d == Min(Max(deleteCount, 1), Len(arr) - s)
    IN  SubSeq(arr, 1, s) \o items \o SubSeq(arr, s + d + 1, Len(arr))

\* Array.prototype.splice(start, deleteCount, ...items) for start >= 0
Splice(arr, start, deleteCount, items) ==
    LET s == Min(start, Len(arr))
        d == Min(Max(deleteCount, 0), Len(arr) - s)
    IN  SubSeq(arr, 1, s) \o items \o SubSeq(arr, s + d + 1, Len(arr))

(***************************************************************************)
(* Paths.  A path is a sequence of segments; the output root is            *)
(* <workspace folder>/generated-code.  A path that starts with a           *)
(* separator has the empty segment first.                                  *)
(***************************************************************************)
OutputPath == << "ws", "generated-code" >>

\* path.normalize on segments: ".." removes the segment before it, and an
\* empty segment (two separators in a row) is dropped
RECURSIVE Normalize(_, _)
Normalize(done, rest) ==
    IF rest = <<>> THEN done
    ELSE IF Head(rest) = "" THEN Normalize(done, Tail(rest))
    ELSE IF Head(rest) = ".."
         THEN Normalize(IF done = <<>> THEN done
                        ELSE SubSeq(done, 1, Len(done) - 1), Tail(rest))
         ELSE Normalize(Append(done, Head(rest)), Tail(rest))

\* path.join(a, b)
PathJoin(a, b) == Normalize(<<>>, a \o b)

\* path.dirname
Dirname(p) == SubSeq(p, 1, Len(p) - 1)

\* the directories fs.mkdirSync(d, {recursive: true}) leaves existing
Ancestors(d) == { SubSeq(d, 1, n) : n \in 1..Len(d) }


(***************************************************************************)
(* Tokens of a generated text.  Every token is a record of the same shape: *)
(*   t = "ch"    one character c of ordinary text                          *)
(*   t = "delim" a run of fifty '-'                                        *)
(*   t = "meta"  the text of a brace-delimited metadata object with the    *)
(*               raw texts of its four values; shape is "ok" when the      *)
(*               object is laid out as the regular expression expects      *)
(*               ("file", "blockId", "startLine", "operation", in this     *)
(*               order) and "malformed" otherwise                          *)
(***************************************************************************)
Ch(c) == [t |-> "ch", c |-> c, file |-> <<>>, blockId |-> "",
          startLine |-> "", operation |-> "", shape |-> ""]
Delim == [t |-> "delim", c |-> "-", file |-> <<>>, blockId |-> "",
          startLine |-> "", operation |-> "", shape |-> ""]
Meta(file, blockId, startLine, operation, shape) ==
    [t |-> "meta", c |-> "{}", file |-> file, blockId |-> blockId,
     startLine |-> startLine, operation |-> operation, shape |-> shape]
NL == Ch("nl")

\* the characters of a stretch of text, as String.prototype methods see them
Chars(toks) == [i \in 1..Len(toks) |-> toks[i].c]
Toks(chars) == [i \in 1..Len(chars) |-> Ch(chars[i])]

IsSpaceTok(tok) == tok.t = "ch" /\ IsSpace(tok.c)

\* decimal numerals, and parseInt on the text of a startLine value
Digits == << "0", "1", "2", "3", "4", "5", "6", "7", "8", "9" >>
NumStr(n) == Digits[n + 1]
IsDigits(s) == \E n \in 0..9 : Digits[n + 1] = s
NaN == [nan |-> TRUE, val |-> 0]
ParseInt(s) ==
    IF IsDigits(s)
    THEN [nan |-> FALSE, val |-> CHOOSE n \in 0..9 : Digits[n + 1] = s]
    ELSE IF s = "-1" THEN [nan |-> FALSE, val |-> -1]
    ELSE NaN

(***************************************************************************)
(* codeBlockRegex.exec(content), extension.ts line 95 and 98.              *)
(***************************************************************************)
\* a looser pattern: any object in braces, any text as the startLine value
MetaMatchesLoose(tok) ==
    /\ tok.t = "meta"
    /\ tok.file # <<>>
    /\ tok.blockId # ""
    /\ tok.operation # ""

\* {\s*"file":\s*"([^"]+)",\s*"blockId":\s*"([^"]+)",\s*"startLine":\s*(\d+),
\* \s*"operation":\s*"([^"]+)"\s*}
MetaMatches(tok) ==
    /\ tok.t = "meta"
    /\ tok.shape = "ok"
    /\ tok.file # <<>>
    /\ tok.blockId # ""
    /\ IsDigits(tok.startLine)
    /\ tok.operation # ""

\* the first index >= i of content that holds no white space (Len + 1 if none)
SkipSpace(content, i) ==
    IF \E k \in i..Len(content) : ~IsSpaceTok(content[k])
    THEN CHOOSE k \in i..Len(content) :
             /\ ~IsSpaceTok(content[k])
             /\ \A j \in i..(k - 1) : IsSpaceTok(content[j])
    ELSE Len(content) + 1

\* the last delimiter at an index >= i (0 if none): a greedy ([\s\S]*)
LastDelim(content, i) ==
    IF \E k \in i..Len(content) : content[k].t = "delim"
    THEN CHOOSE k \in i..Len(content) :
             /\ content[k].t = "delim"
             /\ \A j \in (k + 1)..Len(content) : content[j].t # "delim"
    ELSE 0

\* the first delimiter at an index >= i (0 if none): the lazy ([\s\S]*?)
\* followed by the closing delimiter
NextDelim(content, i) ==
    IF \E k \in i..Len(content) : content[k].t = "delim"
    THEN CHOOSE k \in i..Len(content) :
             /\ content[k].t = "delim"
             /\ \A j \in i..(k - 1) : content[j].t # "delim"
    ELSE 0

NoMatch == [found |-> FALSE, filePath |-> <<>>, blockId |-> "",
            startLineStr |-> "", operation |-> "", code |-> <<>>,
            lastIndex |-> 0]

\* where the match that starts at index i ends: the index of its closing
\* delimiter (0: no match starts at i)
MatchEnd(content, i) ==
    IF content[i].t # "delim" THEN 0
    ELSE LET m == SkipSpace(content, i + 1) IN
         IF m > Len(content) \/ ~MetaMatches(content[m]) THEN 0
         ELSE NextDelim(content, SkipSpace(content, m + 1))

\* the match of the regular expression that starts at index i, if any:
\* the four captured values, the captured code and the new lastIndex
MatchAt(content, i) ==
    IF MatchEnd(content, i) = 0 THEN NoMatch
    ELSE LET m == SkipSpace(content, i + 1)
             c == SkipSpace(content, m + 1)
             e == MatchEnd(content, i)
         IN  [found |-> TRUE,
              filePath |-> content[m].file,
              blockId |-> content[m].blockId,
              startLineStr |-> content[m].startLine,
              operation |-> content[m].operation,
              code |-> Chars(SubSeq(content, c, e - 1)),
              lastIndex |-> e + 1]

\* exec that returns the rightmost match at an index >= lastIndex
ExecRightmost(content, lastIndex) ==
    LET starts == { i \in lastIndex..Len(content) : MatchEnd(content, i) # 0 }
    IN  IF starts = {} THEN NoMatch
        ELSE MatchAt(content, CHOOSE i \in starts : \A j \in starts : i >= j)

\* exec from lastIndex: the leftmost match at an index >= lastIndex
Exec(content, lastIndex) ==
    LET starts == { i \in lastIndex..Len(content) : MatchEnd(content, i) # 0 }
    IN  IF starts = {} THEN NoMatch
        ELSE MatchAt(content, CHOOSE i \in starts : \A j \in starts : i <= j)

(***************************************************************************)
(* The file system: every path of interest is absent or holds a string.    *)
(***************************************************************************)
Absent == [exists |-> FALSE, data |-> <<>>]
File(data) == [exists |-> TRUE, data |-> data]

\* fs.writeFileSync(p, data)
WriteFile(f, p, data) == [f EXCEPT ![p] = File(data)]

\* a write in place of the append: the old content is lost
AppendFileTruncating(f, p, data) == [f EXCEPT ![p] = File(data)]

\* fs.appendFileSync(p, data): creates the file when it is absent
AppendFile(f, p, data) == [f EXCEPT ![p] = File(f[p].data \o data)]

(***************************************************************************)
(* _handleFileModification, extension.ts lines 132-188.                    *)
(* f: the files, d: the existing directories, fault: the file-system       *)
(* operation that fails when it is called ("none": no operation fails).    *)
(* A failing operation throws and leaves the disk as it was.               *)
(* Result: [fs, dirs, threw].                                              *)
(***************************************************************************)
Faults == { "none", "mkdir", "read", "write" }

\* the range test with the upper bound left out
RangeOkUnbounded(block, existingLines) == block.startLine > 0

\* the range test taking endLine as one past the range
RangeOkInclusive(block, existingLines) ==
    block.startLine > 0 /\ block.endLine - 1 <= Len(existingLines)

\* the test of modify and delete (lines 160 and 178)
RangeOk(block, existingLines) ==
    block.startLine > 0 /\ block.endLine <= Len(existingLines)

\* whether the pass of the loop for block calls writeFileSync or
\* appendFileSync
Writes(block, existingLines, operation) ==
    \/ operation = "append"
    \/ operation \in { "modify", "delete" } /\ RangeOk(block, existingLines)
    \/ operation = "insert" /\ block.startLine > 0

\* whether the loop over modification.blocks throws: a write is called
\* and fails
BlocksThrow(existingLines, blocks, operation, fault) ==
    /\ blocks # <<>>
    /\ fault = "write"
    /\ \E k \in 1..Len(blocks) : Writes(blocks[k], existingLines, operation)

\* a switch whose default is the append case
SwitchCaseDefaultAppend(operation) ==
    IF operation \in { "append", "modify", "insert", "delete" }
    THEN operation ELSE "append"

\* switch (operation) (line 150): the case label taken; there is no
\* default, and a value that is none of the four labels takes no case
SwitchCase(operation) ==
    IF operation \in { "append", "modify", "insert", "delete" }
    THEN operation ELSE "none"

\* the loop over modification.blocks (lines 149-187), when no write fails
RECURSIVE ApplyBlocks(_, _, _, _, _, _)
ApplyBlocks(f, filePath, existingContent, existingLines, blocks, operation) ==
    IF blocks = <<>> THEN f
    ELSE
    LET block == Head(blocks)
        label == SwitchCase(operation)
        inRange == RangeOk(block, existingLines)
        lines ==
            CASE label = "modify" /\ inRange ->
                     Splice(existingLines, block.startLine - 1,
                            block.endLine - block.startLine + 1,
                            << block.content >>)
              [] label = "insert" /\ block.startLine > 0 ->
                     Splice(existingLines, block.startLine - 1, 0,
                            << block.content >>)
              [] label = "delete" /\ inRange ->
                     Splice(existingLines, block.startLine - 1,
                            block.endLine - block.startLine + 1, <<>>)
              [] OTHER -> existingLines
        g ==
            CASE label = "append" ->
                     IF existingContent = <<>>
                     THEN WriteFile(f, filePath, block.content)
                     ELSE AppendFile(f, filePath, <<"nl">> \o block.content)
              [] label = "modify" /\ inRange ->
                     WriteFile(f, filePath, Join(lines))
              [] label = "insert" /\ block.startLine > 0 ->
                     WriteFile(f, filePath, Join(lines))
              [] label = "delete" /\ inRange ->
                     WriteFile(f, filePath, Join(lines))
              [] OTHER -> f
    IN  ApplyBlocks(g, filePath, existingContent, lines, Tail(blocks), operation)

HandleFileModification(f, d, modification, fault) ==
    LET filePath == modification.filePath
        directory == Dirname(filePath)
        existingContent == IF f[filePath].exists THEN f[filePath].data ELSE <<>>
        existingLines == IF f[filePath].exists THEN Split(f[filePath].data) ELSE <<>>
    IN  IF directory \notin d /\ fault = "mkdir"
        THEN [fs |-> f, dirs |-> d, threw |-> TRUE]
        ELSE IF f[filePath].exists /\ fault = "read"
        THEN [fs |-> f, dirs |-> d \cup Ancestors(directory), threw |-> TRUE]
        ELSE IF BlocksThrow(existingLines, modification.blocks,
                            modification.operation, fault)
        THEN [fs |-> f, dirs |-> d \cup Ancestors(directory), threw |-> TRUE]
        ELSE [fs |-> ApplyBlocks(f, filePath, existingContent, existingLines,
                                 modification.blocks, modification.operation),
              dirs |-> d \cup Ancestors(directory),
              threw |-> FALSE]

(***************************************************************************)
(* _saveGeneratedCode, extension.ts lines 93-130.                          *)
(***************************************************************************)
\* the CodeBlock with endLine the last line of a range of as many lines as
\* the content
CodeBlockInclusive(match) ==
    LET startLine == ParseInt(match.startLineStr).val IN
    [id |-> match.blockId,
     filePath |-> PathJoin(OutputPath, match.filePath),
     startLine |-> startLine,
     endLine |-> startLine + Len(Split(Trim(match.code))) - 1,
     content |-> Trim(match.code)]

\* the CodeBlock built from a match (lines 108-116)
CodeBlock(match) ==
    LET startLine == ParseInt(match.startLineStr).val IN
    [id |-> match.blockId,
     filePath |-> PathJoin(OutputPath, match.filePath),
     startLine |-> startLine,
     endLine |-> startLine + Len(Split(Trim(match.code))),
     content |-> Trim(match.code)]

\* the FileModification handed to _handleFileModification (lines 120-124)
Modification(match) ==
    [filePath |-> PathJoin(OutputPath, match.filePath),
     blocks |-> << CodeBlock(match) >>,
     operation |-> match.operation]

\* the body of the while loop for one match (lines 99-128): what is thrown
\* in the try block is caught at line 125, logged, and the loop goes on;
\* threw tells whether that happened
SaveMatch(f, d, match, fault) ==
    IF ParseInt(match.startLineStr).nan
    THEN [fs |-> f, dirs |-> d, threw |-> FALSE]
    ELSE HandleFileModification(f, d, Modification(match), fault)

\* the whole loop, from lastIndex on: the files and directories it leaves,
\* and whether a pass threw
RECURSIVE SaveGeneratedCode(_, _, _, _, _)
SaveGeneratedCode(f, d, content, lastIndex, fault) ==
    LET match == Exec(content, lastIndex) IN
    IF ~match.found THEN [fs |-> f, dirs |-> d, threw |-> FALSE]
    ELSE LET r == SaveMatch(f, d, match, fault)
             rest == SaveGeneratedCode(r.fs, r.dirs, content, match.lastIndex,
                                       fault)
         IN  [fs |-> rest.fs, dirs |-> rest.dirs,
              threw |-> r.threw \/ rest.threw]

(***************************************************************************)
(* State.                                                                  *)
(*                                                                         *)
(* On disk:                                                                *)
(*   fs, dirs     the files and directories                                *)
(* Fields of the panel object (lines 28-30) and what its webview shows:    *)
(*   conversationHistory, currentIteration, maxIterations, html            *)
(* One invocation of the continueConversation handler is a run; per run:   *)
(*   pc           "none" (not started), "gen" / "rev" (suspended at the    *)
(*                await of a generate / review call), "done" (returned),   *)
(*                "error" (the catch of _startCodeGeneration ran)          *)
(*   request      the local variable request of _generateAndReview         *)
(*   response     the local variable response of _generateAndReview        *)
(*   task         the codeRequest the run was started with                 *)
(* The scan of _saveGeneratedCode, one pass at a time:                     *)
(*   genText      the text handed to _saveGeneratedCode                    *)
(*   lastIndex    codeBlockRegex.lastIndex, 1-based                        *)
(*   scanning     TRUE while the while loop of _saveGeneratedCode runs     *)
(* History kept for stating properties (not read by any action):           *)
(*   segs         the blocks and prose genText was written from            *)
(*   fs0          the files when the scan started                          *)
(*   codeBlocks   the CodeBlocks built so far, in the order of the         *)
(*                _codeBlocks.set calls                                    *)
(*   prevFs       the files before the latest pass of the loop             *)
(*   lastMod      the FileModification of the latest pass                  *)
(*   calls        the service calls issued so far, in order, each with     *)
(*                its outcome: "pending", "ok" or "failed"                 *)
(*   budget       per run, the iterations value it was started with        *)
(*   errorsShown  per run, how often it showed the error message           *)
(*   saves        per run, how often it ran _saveGeneratedCode             *)
(*   replies      per run, the contents the service returned to its calls, *)
(*                in order                                                 *)
(*   alone        per run, whether no other run was in flight during it    *)
(*   lastThrow    the run (0: none) whose save threw in the latest step,   *)
(*                and the file-system operation that failed                *)
(*   faulted      whether a pass of the scan has thrown                    *)
(* The environment:                                                        *)
(*   twoRuns      whether the user sends a second continueConversation     *)
(*                message, during the first run or after it                *)
(*   disk         "failing" when file-system operations can fail, "sound"  *)
(*                when none does                                           *)
(* The panels of the extension:                                            *)
(*   currentPanel the static field AIConversationPanel.currentPanel: the   *)
(*                number of a panel, or Undefined                          *)
(*   panelColumn  the view column of every webview panel created so far,   *)
(*                in the order of the createWebviewPanel calls             *)
(*   panels       the webview panels created and not disposed              *)
(*   panelOps     the createOrShow and dispose calls made so far, in       *)
(*                order, each with the column of the active editor, the    *)
(*                panel it acted on, and currentPanel before and after it  *)
(***************************************************************************)
VARIABLES fs, dirs,
          conversationHistory, currentIteration, maxIterations, html,
          pc, request, response, task,
          genText, lastIndex, scanning,
          segs, fs0, codeBlocks, prevFs, lastMod,
          calls, budget, errorsShown, saves, alone, replies,
          lastThrow, faulted, twoRuns, disk,
          currentPanel, panelColumn, panels, panelOps

diskVars == << fs, dirs >>
panelVars == << conversationHistory, currentIteration, maxIterations, html >>
runVars == << pc, request, response, task >>
scanVars == << genText, lastIndex, scanning >>
patchHist == << segs, fs0, codeBlocks, prevFs, lastMod, faulted >>
driverHist == << calls, budget, errorsShown, saves, alone, replies >>
envVars == << twoRuns, disk >>
registryVars == << currentPanel, panelColumn, panels, panelOps >>
vars == << diskVars, panelVars, runVars, scanVars, patchHist, driverHist,
          lastThrow, envVars, registryVars >>

(***************************************************************************)
(* The texts the patch engine is run on.                                   *)
(***************************************************************************)
Ops == { "append", "modify", "insert", "delete", "rename" }
FileF == << "f.ts" >>
FileG == << "sub", "g.ts" >>
\* a file value with a parent-directory segment, and an absolute one
FileUp == << "..", "out", "up.ts" >>
FileAbs == << "", "abs.ts" >>
FileNames == { FileF, FileG, FileUp, FileAbs }
FsPaths == { PathJoin(OutputPath, n) : n \in FileNames }
PathF == PathJoin(OutputPath, FileF)
PathG == PathJoin(OutputPath, FileG)

\* payloads: empty; one line; two lines; three lines (the middle one empty)
\* wrapped in white space
WrappedPayload == << "sp", "y", "nl", "nl", "x", "sp" >>
Payloads == { <<>>, << "x" >>, << "x", "nl", "y" >>, WrappedPayload }

\* a segment of a text: a delimited block (defect "none": laid out as the
\* format prescribes; otherwise with that defect in its metadata) or prose
Seg(kind, file, startLine, operation, payload, defect) ==
    [kind |-> kind, file |-> file, startLine |-> startLine,
     operation |-> operation, payload |-> payload, defect |-> defect]
Prose == Seg("prose", <<>>, 0, "", << "x", "sp", "y" >>, "none")

FullSegs ==
    { Seg("block", FileF, n, op, pl, "none") :
          n \in 0..MaxStart, op \in Ops, pl \in Payloads }
Defects == { "negative", "nonnumeric", "malformed" }
SideSegs ==
    { Seg("block", FileF, 1, op, << "x" >>, "none") : op \in { "append", "insert" } }
    \cup { Seg("block", FileG, 1, "append", << "y" >>, "none") }
    \cup { Seg("block", FileF, 1, "append", << "x" >>, df) : df \in Defects }
    \cup { Prose }

\* the segments of full variety with a one-line payload or the payload
\* wrapped in white space
ScanSegs == { s \in FullSegs : s.payload \in { << "x" >>, WrappedPayload } }

\* texts of several segments: one of ScanSegs among at most MaxSegs - 1
\* others
SegSeqs ==
    UNION { { pre \o << s >> \o post :
                  s \in ScanSegs,
                  pre \in [1..ab[1] -> SideSegs],
                  post \in [1..ab[2] -> SideSegs] } :
            ab \in { x \in (0..(MaxSegs - 1)) \X (0..(MaxSegs - 1)) :
                         x[1] + x[2] <= MaxSegs - 1 } }

\* texts of one block whose file value leaves the output root or starts
\* with a separator
PathSegSeqs ==
    { << Seg("block", file, 1, "append", << "y" >>, "none") >> :
          file \in { FileUp, FileAbs } }

\* texts of one segment of full variety, alone or followed by an append
\* or an insert
FollowSegs ==
    { Seg("block", FileF, 1, op, << "x" >>, "none") : op \in { "append", "insert" } }
    \cup { Seg("block", FileG, 1, "append", << "y" >>, "none") }
PatchSegSeqs ==
    { << s >> : s \in FullSegs }
    \cup { << s, t >> : s \in FullSegs, t \in FollowSegs }

BlockIds == << "id1", "id2", "id3", "id4", "id5" >>

\* the text of the startLine value of a segment
StartLineText(seg) ==
    CASE seg.defect = "negative" -> "-1"
      [] seg.defect = "nonnumeric" -> "abc"
      [] OTHER -> NumStr(seg.startLine)

\* the text of segment number k, in the format the generator is told to use
\* (extension.ts lines 276-284)
RenderSeg(seg, k) ==
    IF seg.kind = "prose" THEN Toks(seg.payload) \o << NL >>
    ELSE << Delim, NL,
            Meta(seg.file, BlockIds[k], StartLineText(seg), seg.operation,
                 IF seg.defect = "malformed" THEN "malformed" ELSE "ok"),
            NL >>
         \o Toks(seg.payload) \o << NL, Delim, NL >>

Render(ss) == Concat([k \in 1..Len(ss) |-> RenderSeg(ss[k], k)])

\* initial files: f.ts is absent, empty, or holds 1..MaxFileLines lines
\* "p", "q", ...; sub/g.ts is absent
LineNames == << "p", "q", "r", "s", "t", "u" >>
FileOfLines(n) == Join([i \in 1..n |-> << LineNames[i] >>])
InitialFiles ==
    { [p \in FsPaths |-> IF p = PathF THEN ff ELSE gg] :
          ff \in { Absent } \cup { File(FileOfLines(n)) : n \in 0..MaxFileLines },
          gg \in { Absent } }

\* the directories that exist with these files (the constructor creates
\* the output directory, lines 43-46)
\* the initial files of the scans of texts of several segments: f.ts is
\* absent, or holds one line or MaxFileLines lines
ScanFiles ==
    { f \in InitialFiles :
          f[PathF] \in { Absent, File(FileOfLines(1)),
                         File(FileOfLines(MaxFileLines)) } }

InitialDirs(f) ==
    Ancestors(OutputPath)
    \cup UNION { Ancestors(Dirname(p)) : p \in { q \in FsPaths : f[q].exists } }

NoMod == [filePath |-> <<>>, blocks |-> <<>>, operation |-> ""]
NoThrow == [run |-> 0, fault |-> "none"]

(***************************************************************************)
(* Messages of the conversation.  Every message content is a record        *)
(*   kind "task"     a: the codeRequest                                    *)
(*   kind "empty"    the empty string                                      *)
(*   kind "improve"  the request of line 403; a: response, b: review       *)
(*   kind "reply"    a: the text the service returned                      *)
(*   kind "generate" the system prompt of line 235 built from the prompt   *)
(*                   of line 219 (a: the codeRequest in it)                *)
(*   kind "enhance"  the system prompt of line 235 with the fixed          *)
(*                   instruction of line 236                               *)
(*   kind "review"   the reviewPrompt of line 319; a: the response in it   *)
(***************************************************************************)
Content(kind, a, b) == [kind |-> kind, a |-> a, b |-> b]
EmptyContent == Content("empty", "", "")

\* two invocations of the handler are followed, so that one can be started
\* while the other is in flight; they are, with budgets up to MaxIter and a
\* sound disk, or one run alone is, with a budget up to MaxIterAlone and a
\* disk whose operations can fail
Runs == { 1, 2 }
Tasks == { "task" }
\* what the service can return as message content ("" : none): to a generate
\* call and to a review call
GenContents == { "", "code", "skip" }
\* the text with a block that is skipped is returned to the run alone only
GenContentsOf(two) == IF two THEN GenContents \ { "skip" } ELSE GenContents
ReviewContents == { "code" }
Fallback == "No response generated"

\* the text a returned content stands for
TextOf(text) ==
    CASE text = "code" ->
             Render(<< Seg("block", FileF, 1, "append", << "x" >>, "none") >>)
      [] text = "skip" ->
             Render(<< Seg("block", FileF, 1, "append", << "x" >>, "malformed") >>)
      [] text = "prose" -> Render(<< Prose >>)
      [] OTHER -> Toks(<< "x", "sp", "x" >>)

InFlight(r) == pc[r] \in { "gen", "rev" }

\* the messages array of lines 414-418, with the call's kind and run
Call(r, systemPrompt, userMessage, isGenerator) ==
    [run |-> r, isGenerator |-> isGenerator, system |-> systemPrompt,
     history |-> conversationHistory', user |-> userMessage,
     status |-> "pending"]

\* the log with the outcome of the pending call of run r
Answered(log, r, outcome) ==
    LET i == CHOOSE k \in 1..Len(log) :
                 log[k].run = r /\ log[k].status = "pending"
    IN  [log EXCEPT ![i].status = outcome]

\* the system prompt built from the prompt of line 219 in every round
GeneratorSystemAlwaysTask(iteration, codeRequest) ==
    Content("generate", codeRequest, "")

\* the system prompt of the generate call (lines 235-236)
GeneratorSystem(iteration, codeRequest) ==
    IF iteration = 0 THEN Content("generate", codeRequest, "")
    ELSE Content("enhance", "", "")

\* the push with the outgoing entry left out
PushedReplyOnly(history, userMessage, aiResponse) ==
    Append(history, [role |-> "assistant",
                     content |-> Content("reply", aiResponse, "")])

\* the push keeping a window of the last exchange only
PushedWindow(history, userMessage, aiResponse) ==
    << [role |-> "user", content |-> userMessage],
       [role |-> "assistant", content |-> Content("reply", aiResponse, "")] >>

\* lines 424-427
Pushed(history, userMessage, aiResponse) ==
    history \o << [role |-> "user", content |-> userMessage],
                  [role |-> "assistant", content |-> Content("reply", aiResponse, "")] >>

\* the speaker _formatConversation (lines 435-438) gives the entry msg at
\* index (from 0) of the transcript, without the 'AI n - ' before it
Speaker(msg, index) ==
    IF msg.role = "user" THEN "User"
    ELSE IF index % 4 = 2 THEN "Generator" ELSE "Reviewer"

\* _formatConversation (lines 433-445): the entries rendered, in order
FormatConversation(history) ==
    [i \in 1..Len(history) |->
        [speaker |-> Speaker(history[i], i - 1), content |-> history[i].content]]

\* _updateWebview: the content shown and the iteration line of
\* _getWebviewContent
Shown(content, iteration, max) ==
    [content |-> content, iteration |-> iteration + 1, of |-> max]

\* the test of line 318 with the bound of the loop test
ReviewDueEveryRound(iteration, max) == iteration < max

\* the test of line 318: a review follows every round but the last
ReviewDue(iteration, max) == iteration < max - 1

\* the loop left one round early
LoopHeadStops(r, iteration, max, userMessage, log) ==
    IF iteration < max - 1
    THEN /\ pc' = [pc EXCEPT ![r] = "gen"]
         /\ calls' = Append(log, Call(r, GeneratorSystem(iteration, task'[r]),
                                      userMessage, TRUE))
    ELSE /\ pc' = [pc EXCEPT ![r] = "done"]
         /\ calls' = log

\* the test of the while loop (line 232) with the counter at iteration, and
\* the call of _generateResponse until its await (lines 234-310, 412)
LoopHead(r, iteration, max, userMessage, log) ==
    IF iteration < max
    THEN /\ pc' = [pc EXCEPT ![r] = "gen"]
         /\ calls' = Append(log, Call(r, GeneratorSystem(iteration, task'[r]),
                                      userMessage, TRUE))
    ELSE /\ pc' = [pc EXCEPT ![r] = "done"]
         /\ calls' = log

(***************************************************************************)
(* The Conversation Driver.  An action is the code that runs between two   *)
(* awaits of a service call.                                               *)
(***************************************************************************)
\* the continueConversation case of the message handler (lines 56-61) and
\* _startCodeGeneration up to the first await
ContinueConversation(r, codeRequest, iterations) ==
    /\ pc[r] = "none"
    /\ \A q \in Runs : q < r => pc[q] # "none"
    /\ twoRuns \/ r = 1
    /\ iterations <= (IF twoRuns THEN MaxIter ELSE MaxIterAlone)
    /\ codeRequest # "" /\ iterations # 0
    /\ maxIterations' = iterations
    /\ currentIteration' = 0
    /\ conversationHistory' = <<>>
    /\ task' = [task EXCEPT ![r] = codeRequest]
    /\ request' = [request EXCEPT ![r] = Content("task", codeRequest, "")]
    /\ LoopHead(r, 0, iterations, Content("task", codeRequest, ""), calls)
    /\ budget' = [budget EXCEPT ![r] = iterations]
    /\ alone' = [q \in Runs |->
                    IF q = r THEN \A o \in Runs : ~InFlight(o)
                    ELSE IF InFlight(q) THEN FALSE ELSE alone[q]]
    /\ lastThrow' = NoThrow
    /\ UNCHANGED << diskVars, html, response, scanVars, patchHist,
                    errorsShown, saves, replies, envVars, registryVars >>

\* the save lets what a pass threw through, to the catch of
\* _startCodeGeneration
AfterSaveUncaught(r, aiResponse, log, threw) ==
    IF threw
    THEN /\ pc' = [pc EXCEPT ![r] = "error"]
         /\ errorsShown' = [errorsShown EXCEPT ![r] = @ + 1]
         /\ calls' = log
         /\ currentIteration' = currentIteration
    ELSE /\ errorsShown' = errorsShown
         /\ IF ReviewDue(currentIteration, maxIterations)
            THEN /\ pc' = [pc EXCEPT ![r] = "rev"]
                 /\ calls' = Append(log, Call(r, Content("review", aiResponse, ""),
                                              EmptyContent, FALSE))
                 /\ currentIteration' = currentIteration
            ELSE /\ currentIteration' = currentIteration + 1
                 /\ LoopHead(r, currentIteration + 1, maxIterations, request[r], log)

\* the outcome of the save fed back: no review of a text whose save threw
AfterSaveFeedback(r, aiResponse, log, threw) ==
    /\ errorsShown' = errorsShown
    /\ IF ReviewDue(currentIteration, maxIterations) /\ ~threw
       THEN /\ pc' = [pc EXCEPT ![r] = "rev"]
            /\ calls' = Append(log, Call(r, Content("review", aiResponse, ""),
                                         EmptyContent, FALSE))
            /\ currentIteration' = currentIteration
       ELSE /\ currentIteration' = currentIteration + 1
            /\ LoopHead(r, currentIteration + 1, maxIterations, request[r], log)

\* _generateAndReview after the save (lines 317-320 and 407), whether a
\* pass of the save threw or not: the review call, or the increment, the
\* loop test and the next generate call or the return
AfterSave(r, aiResponse, log, threw) ==
    /\ errorsShown' = errorsShown
    /\ IF ReviewDue(currentIteration, maxIterations)
       THEN /\ pc' = [pc EXCEPT ![r] = "rev"]
            /\ calls' = Append(log, Call(r, Content("review", aiResponse, ""),
                                         EmptyContent, FALSE))
            /\ currentIteration' = currentIteration
       ELSE /\ currentIteration' = currentIteration + 1
            /\ LoopHead(r, currentIteration + 1, maxIterations, request[r], log)

\* no save of the fallback text
SaveDueOnContent(aiResponse) == aiResponse # "" /\ aiResponse # Fallback

\* the test of line 313
SaveDue(aiResponse) == aiResponse # ""

\* the generate call returns: the rest of _generateResponse (lines 423-430)
\* and _generateAndReview from line 313 to the next await or the return
GenerateReturns(r, content, fault) ==
    /\ pc[r] = "gen"
    /\ task' = task
    /\ LET aiResponse == IF content = "" THEN Fallback ELSE content
           saved == IF SaveDue(aiResponse)
                    THEN SaveGeneratedCode(fs, dirs, TextOf(aiResponse), 1, fault)
                    ELSE [fs |-> fs, dirs |-> dirs, threw |-> FALSE]
           log == Answered(calls, r, "ok")
       IN
       /\ fault = "none" \/ (disk = "failing" /\ saved.threw)
       /\ lastThrow' = IF saved.threw THEN [run |-> r, fault |-> fault]
                       ELSE NoThrow
       /\ conversationHistory' = Pushed(conversationHistory, request[r], aiResponse)
       /\ html' = Shown("conversation", currentIteration, maxIterations)
       /\ response' = [response EXCEPT ![r] = aiResponse]
       /\ fs' = saved.fs
       /\ dirs' = saved.dirs
       /\ saves' = [saves EXCEPT ![r] = IF SaveDue(aiResponse) THEN @ + 1 ELSE @]
       /\ replies' = [replies EXCEPT ![r] = Append(@, content)]
       /\ AfterSave(r, aiResponse, log, saved.threw)
    /\ UNCHANGED << maxIterations, request, scanVars, patchHist, budget,
                    alone, envVars, registryVars >>

\* the request left as it was, whatever the review
ImproveRequestKept(request0, response0, review) == request0

\* lines 402-404: the request of the next round, built from the generated
\* text and the review of this one
ImproveRequest(request0, response0, review) ==
    IF review # "" THEN Content("improve", response0, review) ELSE request0

\* the review saved as a generated text is
ReviewReturnsSaving(r, content) ==
    /\ pc[r] = "rev"
    /\ task' = task
    /\ LET review == IF content = "" THEN Fallback ELSE content
           newRequest == ImproveRequest(request[r], response[r], review)
       IN
       /\ conversationHistory' = Pushed(conversationHistory, EmptyContent, review)
       /\ html' = Shown("conversation", currentIteration, maxIterations)
       /\ request' = [request EXCEPT ![r] = newRequest]
       /\ currentIteration' = currentIteration + 1
       /\ LoopHead(r, currentIteration + 1, maxIterations, newRequest,
                   Answered(calls, r, "ok"))
    /\ replies' = [replies EXCEPT ![r] = Append(@, content)]
    /\ lastThrow' = NoThrow
    /\ fs' = SaveGeneratedCode(fs, dirs, TextOf(content), 1, "none").fs
    /\ dirs' = SaveGeneratedCode(fs, dirs, TextOf(content), 1, "none").dirs
    /\ UNCHANGED << maxIterations, response, scanVars,
                    patchHist, budget, errorsShown, saves, alone, envVars, registryVars >>

\* the review call returns: the rest of _generateResponse and lines 402-407,
\* then the loop test and the next generate call or the return
ReviewReturns(r, content) ==
    /\ pc[r] = "rev"
    /\ task' = task
    /\ LET review == IF content = "" THEN Fallback ELSE content
           newRequest == ImproveRequest(request[r], response[r], review)
       IN
       /\ conversationHistory' = Pushed(conversationHistory, EmptyContent, review)
       /\ html' = Shown("conversation", currentIteration, maxIterations)
       /\ request' = [request EXCEPT ![r] = newRequest]
       /\ currentIteration' = currentIteration + 1
       /\ LoopHead(r, currentIteration + 1, maxIterations, newRequest,
                   Answered(calls, r, "ok"))
    /\ replies' = [replies EXCEPT ![r] = Append(@, content)]
    /\ lastThrow' = NoThrow
    /\ UNCHANGED << diskVars, maxIterations, response, scanVars,
                    patchHist, budget, errorsShown, saves, alone, envVars, registryVars >>

\* the catch after a push of the outgoing user message
CaughtPushing(r) ==
    /\ pc' = [pc EXCEPT ![r] = "error"]
    /\ html' = Shown("error", currentIteration, maxIterations)
    /\ errorsShown' = [errorsShown EXCEPT ![r] = @ + 1]
    /\ calls' = Answered(calls, r, "failed")
    /\ lastThrow' = NoThrow
    /\ conversationHistory' =
           Append(conversationHistory, [role |-> "user", content |-> request[r]])
    /\ UNCHANGED << diskVars, currentIteration,
                    maxIterations, request, response, task, scanVars,
                    patchHist, budget, saves, alone, replies, envVars, registryVars >>

\* the catch of _startCodeGeneration (lines 225-228)
Caught(r) ==
    /\ pc' = [pc EXCEPT ![r] = "error"]
    /\ html' = Shown("error", currentIteration, maxIterations)
    /\ errorsShown' = [errorsShown EXCEPT ![r] = @ + 1]
    /\ calls' = Answered(calls, r, "failed")
    /\ lastThrow' = NoThrow
    /\ UNCHANGED << diskVars, conversationHistory, currentIteration,
                    maxIterations, request, response, task, scanVars,
                    patchHist, budget, saves, alone, replies, envVars, registryVars >>

\* a failed review call taken as an empty review: the loop goes on with the
\* request unchanged
ReviewFailsContinues(r) ==
    /\ pc[r] = "rev"
    /\ currentIteration' = currentIteration + 1
    /\ conversationHistory' = conversationHistory
    /\ task' = task
    /\ LoopHead(r, currentIteration + 1, maxIterations, request[r],
                Answered(calls, r, "failed"))
    /\ UNCHANGED << diskVars, maxIterations, html,
                    request, response, scanVars, patchHist, budget,
                    errorsShown, saves, alone, replies, lastThrow, envVars, registryVars >>

\* a failed generate call taken as the fallback text, which is recorded and
\* saved, and the run ended
GenerateFailsSwallowed(r) ==
    /\ pc[r] = "gen"
    /\ conversationHistory' = Pushed(conversationHistory, request[r], Fallback)
    /\ html' = Shown("conversation", currentIteration, maxIterations)
    /\ response' = [response EXCEPT ![r] = Fallback]
    /\ saves' = [saves EXCEPT ![r] = @ + 1]
    /\ pc' = [pc EXCEPT ![r] = "done"]
    /\ calls' = Answered(calls, r, "failed")
    /\ UNCHANGED << diskVars, currentIteration, maxIterations, request, task,
                    scanVars, patchHist, budget, errorsShown, alone, replies,
                    lastThrow, envVars, registryVars >>

\* the generate call fails: create() throws at line 412
GenerateFails(r) ==
    /\ pc[r] = "gen"
    /\ Caught(r)

\* the review call fails
ReviewFails(r) ==
    /\ pc[r] = "rev"
    /\ Caught(r)

(***************************************************************************)
(* Initial states.                                                         *)
(***************************************************************************)
\* the value of currentPanel before the first createOrShow (line 23)
Undefined == 0

\* vscode.ViewColumn.One and vscode.ViewColumn.Two
ViewColumns == { 1, 2 }

\* the panel the command has created: createOrShow with no editor active
OnePanel ==
    /\ currentPanel = 1
    /\ panelColumn = << 1 >>
    /\ panels = { 1 }
    /\ panelOps = << [op |-> "createOrShow", column |-> Undefined,
                      panel |-> 1,
                      before |-> Undefined, after |-> 1] >>

\* the fields of a panel after its constructor (lines 28-48)
InitFields ==
    /\ conversationHistory = <<>>
    /\ currentIteration = 0
    /\ maxIterations = DefaultMaxIterations
    /\ html = Shown("welcome", 0, DefaultMaxIterations)
    /\ pc = [r \in Runs |-> "none"]
    /\ request = [r \in Runs |-> EmptyContent]
    /\ response = [r \in Runs |-> ""]
    /\ task = [r \in Runs |-> ""]
    /\ calls = <<>>
    /\ budget = [r \in Runs |-> 0]
    /\ errorsShown = [r \in Runs |-> 0]
    /\ saves = [r \in Runs |-> 0]
    /\ replies = [r \in Runs |-> <<>>]
    /\ alone = [r \in Runs |-> TRUE]
    /\ lastThrow = NoThrow

\* the panel after the command has created it
InitPanel == InitFields /\ OnePanel

\* no scan of _saveGeneratedCode is being followed
InitNoScan ==
    /\ segs = <<>>
    /\ genText = <<>>
    /\ lastIndex = 1
    /\ scanning = FALSE
    /\ codeBlocks = <<>>
    /\ fs0 = fs
    /\ prevFs = fs
    /\ lastMod = NoMod
    /\ faulted = FALSE

Init ==
    /\ fs = [p \in FsPaths |-> Absent]
    /\ dirs = Ancestors(OutputPath)
    /\ \/ twoRuns = TRUE /\ disk = "sound"
       \/ twoRuns = FALSE /\ disk = "failing"
    /\ InitPanel
    /\ InitNoScan

Next ==
    \/ \E r \in Runs, codeRequest \in Tasks \cup { "" },
          iterations \in 0..Max(MaxIter, MaxIterAlone) :
           ContinueConversation(r, codeRequest, iterations)
    \/ \E r \in Runs, content \in GenContentsOf(twoRuns), fault \in Faults :
           GenerateReturns(r, content, fault)
    \/ \E r \in Runs, content \in ReviewContents : ReviewReturns(r, content)
    \/ \E r \in Runs : GenerateFails(r)
    \/ \E r \in Runs : ReviewFails(r)

Spec == Init /\ [][Next]_vars

\* the promise of chat.completions.create (line 412) of the pending call
\* of run r is settled.  It resolves: a content is returned to the run
\* (what every step GenerateReturns and ReviewReturns of the run does to
\* replies); or it rejects (what every step GenerateFails and ReviewFails
\* of the run does to calls)
CallResolves(r) ==
    /\ InFlight(r)
    /\ \E content \in GenContents \cup ReviewContents :
           replies' = [replies EXCEPT ![r] = Append(@, content)]

CallRejects(r) ==
    /\ InFlight(r)
    /\ calls' = Answered(calls, r, "failed")

\* every service call eventually returns or fails: no call of a run stays
\* pending for ever
SpecLive ==
    Spec /\ \A r \in Runs : WF_replies(CallResolves(r)) /\ WF_calls(CallRejects(r))

(***************************************************************************)
(* The patch engine, one pass of its loop at a time.                       *)
(***************************************************************************)
\* _saveGeneratedCode is entered with the text of segs on the files fs
ScanStart ==
    /\ genText = Render(segs)
    /\ dirs = InitialDirs(fs)
    /\ fs0 = fs
    /\ lastIndex = 1
    /\ scanning = TRUE
    /\ codeBlocks = <<>>
    /\ prevFs = fs
    /\ lastMod = NoMod
    /\ faulted = FALSE
    /\ twoRuns = FALSE
    /\ InitPanel

\* texts of one or two blocks, on a sound or on a failing disk
InitPatch ==
    /\ segs \in PatchSegSeqs \cup PathSegSeqs
    /\ fs \in InitialFiles
    /\ disk \in { "sound", "failing" }
    /\ ScanStart

\* texts of up to MaxSegs segments, on a sound disk
InitScan ==
    /\ segs \in SegSeqs
    /\ fs \in ScanFiles
    /\ disk = "sound"
    /\ ScanStart

\* one pass of the while loop of _saveGeneratedCode for a match
SaveStep ==
    /\ scanning
    /\ \E match \in { Exec(genText, lastIndex) }, fault \in Faults :
       /\ match.found
       /\ \E r \in { SaveMatch(fs, dirs, match, fault) } :
          /\ fault = "none" \/ (disk = "failing" /\ r.threw)
          /\ fs' = r.fs
          /\ dirs' = r.dirs
          /\ lastThrow' = IF r.threw THEN [run |-> 0, fault |-> fault]
                          ELSE NoThrow
          /\ faulted' = (faulted \/ r.threw)
       /\ lastIndex' = match.lastIndex
       /\ codeBlocks' = IF ParseInt(match.startLineStr).nan THEN codeBlocks
                        ELSE Append(codeBlocks, CodeBlock(match))
       /\ prevFs' = fs
       /\ lastMod' = IF ParseInt(match.startLineStr).nan THEN NoMod
                     ELSE Modification(match)
    /\ UNCHANGED << segs, fs0, genText, scanning, panelVars, runVars,
                    driverHist, envVars, registryVars >>

\* exec returns null: the loop ends
SaveDone ==
    /\ scanning
    /\ ~Exec(genText, lastIndex).found
    /\ scanning' = FALSE
    /\ UNCHANGED << diskVars, genText, lastIndex, patchHist, panelVars,
                    runVars, driverHist, lastThrow, envVars, registryVars >>

NextPatch == SaveStep \/ SaveDone

SpecPatch == InitPatch /\ [][NextPatch]_vars

SpecScan == InitScan /\ [][NextPatch]_vars

(***************************************************************************)
(* The command and the panels: createOrShow (lines 190-211), which the     *)
(* command ai-conversation.startConversation runs (lines 568-574), and     *)
(* dispose (lines 556-565), which a panel runs when its webview panel is   *)
(* closed (line 49).                                                       *)
(***************************************************************************)
\* the column of the active text editor; Undefined when there is none
Columns == ViewColumns \cup { Undefined }

\* createOrShow without the test of currentPanel
CreateOrShowAlways(column) ==
    /\ Len(panelOps) < MaxPanelOps
    /\ LET panel == Len(panelColumn) + 1 IN
           /\ panelColumn' =
                  Append(panelColumn, IF column # Undefined THEN column ELSE 1)
           /\ panels' = panels \cup { panel }
           /\ currentPanel' = panel
           /\ conversationHistory' = <<>>
           /\ currentIteration' = 0
           /\ maxIterations' = DefaultMaxIterations
           /\ html' = Shown("welcome", 0, DefaultMaxIterations)
    /\ panelOps' = Append(panelOps, [op |-> "createOrShow",
                                     column |-> column,
                                     panel |-> currentPanel',
                                     before |-> currentPanel,
                                     after |-> currentPanel'])
    /\ UNCHANGED << diskVars, runVars, scanVars, patchHist, driverHist,
                    lastThrow, envVars >>

\* createOrShow: reveal the current panel if there is one, else create a
\* webview panel in the column, or in ViewColumn.One, and the panel on it
CreateOrShow(column) ==
    /\ Len(panelOps) < MaxPanelOps
    /\ IF currentPanel # Undefined
       THEN /\ panelColumn' =
                   [panelColumn EXCEPT
                       ![currentPanel] = IF column # Undefined THEN column ELSE @]
            /\ UNCHANGED << currentPanel, panels, panelVars >>
       ELSE LET panel == Len(panelColumn) + 1 IN
            /\ panelColumn' =
                   Append(panelColumn, IF column # Undefined THEN column ELSE 1)
            /\ panels' = panels \cup { panel }
            /\ currentPanel' = panel
            /\ conversationHistory' = <<>>
            /\ currentIteration' = 0
            /\ maxIterations' = DefaultMaxIterations
            /\ html' = Shown("welcome", 0, DefaultMaxIterations)
    /\ panelOps' = Append(panelOps, [op |-> "createOrShow",
                                     column |-> column,
                                     panel |-> currentPanel',
                                     before |-> currentPanel,
                                     after |-> currentPanel'])
    /\ UNCHANGED << diskVars, runVars, scanVars, patchHist, driverHist,
                    lastThrow, envVars >>

\* dispose of panel p, run by onDidDispose when its webview panel is closed
Dispose(p) ==
    /\ Len(panelOps) < MaxPanelOps
    /\ p \in panels
    /\ currentPanel' = Undefined
    /\ panels' = panels \ { p }
    /\ panelOps' = Append(panelOps, [op |-> "dispose",
                                     column |-> Undefined,
                                     panel |-> p,
                                     before |-> currentPanel,
                                     after |-> currentPanel'])
    /\ UNCHANGED << diskVars, panelVars, runVars, scanVars, patchHist,
                    driverHist, lastThrow, envVars, panelColumn >>

\* the extension after activate, before the command has run
InitActivated ==
    /\ fs = [p \in FsPaths |-> Absent]
    /\ dirs = Ancestors(OutputPath)
    /\ twoRuns = FALSE
    /\ disk = "sound"
    /\ InitFields
    /\ InitNoScan
    /\ currentPanel = Undefined
    /\ panelColumn = <<>>
    /\ panels = {}
    /\ panelOps = <<>>

NextPanel ==
    \/ \E column \in Columns : CreateOrShow(column)
    \/ \E p \in panels : Dispose(p)

SpecPanel == InitActivated /\ [][NextPanel]_vars

(***************************************************************************)
(* Properties of the Conversation Driver (specification Spec).             *)
(*                                                                         *)
(* The counter, the bound and the transcript are fields of the panel, and  *)
(* the handler does not refuse a continueConversation message that comes   *)
(* while a run is suspended at a service call.  alone[r] tells the runs    *)
(* that were the only one in flight from their start on; a property of     *)
(* the calls or of the transcript of "a run" is stated of those, and the   *)
(* *_Overlapped formulas state the same of every run.                      *)
(***************************************************************************)
CallsOf(r) == SelectSeq(calls, LAMBDA c : c.run = r)
Failures(r) == Len(SelectSeq(calls, LAMBDA c : c.run = r /\ c.status = "failed"))
Successes == Len(SelectSeq(calls, LAMBDA c : c.status = "ok"))
Started(r) == pc[r] # "none"
IsPrefix(a, b) == Len(a) <= Len(b) /\ SubSeq(b, 1, Len(a)) = a

\* generate, review, generate, ... : the odd calls are generate calls
Alternating(k) == \A i \in 1..Len(k) : k[i].isGenerator = (i % 2 = 1)

CallsAsBudgeted(r) ==
    LET k == CallsOf(r)
        N == budget[r]
    IN  /\ N >= 1
        /\ Alternating(k)
        /\ Len(k) <= 2 * N - 1
        /\ pc[r] = "done" => Len(k) = 2 * N - 1
        /\ InFlight(r) => k[Len(k)].status = "pending"
        /\ (Len(k) = 2 * N - 1 /\ k[Len(k)].status = "ok") => pc[r] = "done"

\* C1: a run started with budget N issues generate and review calls in
\* strict alternation, starting with a generate call, never more than
\* 2N-1 of them; when it has completed (every call succeeded) it has issued
\* exactly 2N-1, that is N generate calls and N-1 review calls, the last one
\* a generate call; and it completes as soon as its 2N-1'th call succeeds.
C1_Alternates == \A r \in Runs : (Started(r) /\ alone[r]) => CallsAsBudgeted(r)

C1_Witness ==
    \E r \in Runs :
        /\ alone[r] /\ pc[r] = "done" /\ budget[r] >= 2
        /\ Len(CallsOf(r)) = 2 * budget[r] - 1
        /\ ~CallsOf(r)[2].isGenerator

\* the same of every run, overlapped or not
C1_Overlapped == \A r \in Runs : Started(r) => CallsAsBudgeted(r)

\* C2: the step on which a service call of a run fails, in any round,
\* issues no call and writes no file, ends the run in the error state and
\* shows one error message; from then on the run issues no call, saves
\* nothing and shows no other error message: it has failed once and shown
\* one message.
C2_FailureAborts ==
    [][\A r \in Runs :
          /\ Failures(r)' # Failures(r) =>
                /\ InFlight(r) /\ pc'[r] = "error"
                /\ Len(calls') = Len(calls)
                /\ fs' = fs /\ dirs' = dirs /\ saves' = saves
                /\ errorsShown[r] = 0 /\ errorsShown'[r] = 1
                /\ html'.content = "error"
          /\ pc[r] = "error" =>
                /\ pc'[r] = "error"
                /\ CallsOf(r)' = CallsOf(r)
                /\ saves'[r] = saves[r]
                /\ errorsShown'[r] = 1
          /\ Failures(r)' = (IF pc'[r] = "error" THEN 1 ELSE 0)]_vars

\* a run has failed at a review call after a save, and calls of the other
\* run have been issued since
C2_Witness ==
    \E r \in Runs :
        /\ pc[r] = "error" /\ saves[r] >= 1 /\ errorsShown[r] = 1
        /\ ~CallsOf(r)[Len(CallsOf(r))].isGenerator
        /\ calls[Len(calls)].run # r

\* C3: a run whose first generate call fails changes no file and no
\* directory: neither its start nor the failing step does, and these are
\* all its steps, since the failing step ends it in the error state with
\* nothing saved and one error message shown.
C3_FirstRoundFailure ==
    [][\A r \in Runs :
          /\ (~Started(r) /\ Started(r)') =>
                /\ fs' = fs /\ dirs' = dirs
                /\ saves'[r] = 0 /\ errorsShown'[r] = 0
                /\ Len(CallsOf(r)') = 1 /\ CallsOf(r)'[1].isGenerator
          /\ (Len(CallsOf(r)) = 1 /\ Failures(r)' # Failures(r)) =>
                /\ fs' = fs /\ dirs' = dirs
                /\ pc'[r] = "error"
                /\ saves'[r] = 0 /\ errorsShown'[r] = 1
                /\ html'.content = "error"
          /\ (Len(CallsOf(r)) = 1 /\ Failures(r) = 1) =>
                /\ pc'[r] = "error" /\ Len(CallsOf(r)') = 1
                /\ saves'[r] = 0 /\ errorsShown'[r] = 1]_vars

\* the first generate call of a run has failed, before any file was written
C3_Witness ==
    \E r \in Runs :
        /\ pc[r] = "error" /\ Len(CallsOf(r)) = 1 /\ alone[r]
        /\ CallsOf(r)[1].isGenerator /\ CallsOf(r)[1].status = "failed"
        /\ errorsShown[r] = 1 /\ saves[r] = 0
        /\ \A p \in FsPaths : ~fs[p].exists

EvenAlternating(history) ==
    /\ Len(history) % 2 = 0
    /\ \A i \in 1..Len(history) :
           history[i].role = (IF i % 2 = 1 THEN "user" ELSE "assistant")

\* the step answers the pending call of run r, and appends its user message
\* and an assistant entry
AppendsExchange(r) ==
    LET k == CallsOf(r)
        n == Len(conversationHistory)
    IN  /\ InFlight(r) /\ k[Len(k)].status = "pending"
        /\ CallsOf(r)'[Len(k)].status = "ok"
        /\ Len(conversationHistory') = n + 2
        /\ IsPrefix(conversationHistory, conversationHistory')
        /\ conversationHistory'[n + 1] = [role |-> "user", content |-> k[Len(k)].user]
        /\ conversationHistory'[n + 2].role = "assistant"

EndsWith4NMinus2(r) ==
    (pc[r] # "done" /\ pc'[r] = "done") =>
        Len(conversationHistory') = 4 * budget[r] - 2

\* C4: the transcript always has even length and alternates user,
\* assistant; a step on which a service call succeeds appends exactly two
\* entries, the user message of the call and then an assistant entry, and
\* no other step but the start of a run changes the transcript; a run
\* that completes leaves a transcript of 4N-2 entries (four for each of
\* the N-1 rounds with a review, two for the last).
C4_TwoPerCall ==
    [][/\ EvenAlternating(conversationHistory')
       /\ Successes' # Successes =>
             /\ Successes' = Successes + 1
             /\ \E r \in Runs : AppendsExchange(r)
       /\ (Successes' = Successes /\ conversationHistory' # conversationHistory) =>
             /\ conversationHistory' = <<>>
             /\ \E r \in Runs : ~Started(r) /\ Started(r)'
       /\ \A r \in Runs : alone'[r] => EndsWith4NMinus2(r)]_vars

C4_Witness ==
    \E r \in Runs :
        /\ alone[r] /\ pc[r] = "done" /\ budget[r] >= 2
        /\ Len(conversationHistory) = 4 * budget[r] - 2
        /\ conversationHistory[3].content = EmptyContent

\* the count of C4 of every run, overlapped or not
C4_Overlapped == [][\A r \in Runs : EndsWith4NMinus2(r)]_vars

\* C5: the step that starts a run leaves the transcript empty, and every
\* step taken while a run is in flight leaves a transcript of which the one
\* before is a prefix.
C5_AppendOnly ==
    [][\A r \in Runs :
          /\ (~Started(r) /\ Started(r)') => conversationHistory' = <<>>
          /\ (InFlight(r) /\ alone'[r]) =>
                IsPrefix(conversationHistory, conversationHistory')]_vars

\* a second run, started on a transcript that was not empty, has appended
\* to the emptied transcript
C5_Witness ==
    /\ pc[1] = "done" /\ alone[1]
    /\ InFlight(2) /\ alone[2]
    /\ Len(conversationHistory) >= 2
    /\ Len(CallsOf(1)) >= 3

\* the same of every run, overlapped or not
C5_Overlapped ==
    [][\A r \in Runs :
          InFlight(r) => IsPrefix(conversationHistory, conversationHistory')]_vars

(***************************************************************************)
(* Properties of the patch engine (specifications SpecPatch and            *)
(* SpecScan).  What a block does to the files is stated of passes and      *)
(* scans in which no file-system operation fails; C15 is about those in    *)
(* which one does.                                                         *)
(***************************************************************************)
\* t is s without its leading and trailing white space
IsTrimOf(t, s) ==
    \E i \in 1..(Len(s) + 1), j \in 0..Len(s) :
        /\ t = SubSeq(s, i, j)
        /\ \A k \in 1..(i - 1) : IsSpace(s[k])
        /\ \A k \in (j + 1)..Len(s) : IsSpace(s[k])
        /\ t # <<>> => ~IsSpace(t[1]) /\ ~IsSpace(t[Len(t)])

\* the number of newline-separated lines of t
LineCount(t) == 1 + Cardinality({ k \in 1..Len(t) : t[k] = "nl" })

RECURSIVE Ascending(_)
Ascending(S) ==
    IF S = {} THEN <<>>
    ELSE LET m == CHOOSE x \in S : \A y \in S : x <= y
         IN  << m >> \o Ascending(S \ { m })

FourOps == { "append", "modify", "insert", "delete" }

\* a segment in the format of section 6 of the specification
WellFormedSeg(seg) ==
    \/ seg.kind = "prose"
    \/ /\ seg.kind = "block"
       /\ seg.defect = "none"
       /\ seg.startLine >= 1
       /\ seg.operation \in FourOps
WellFormed(ss) == \A k \in 1..Len(ss) : WellFormedSeg(ss[k])

\* the positions of the blocks of a text, left to right
BlockIndexes(ss) == Ascending({ k \in 1..Len(ss) : ss[k].kind = "block" })

\* the segment a built CodeBlock was read from
SegOf(block) == segs[CHOOSE k \in 1..Len(segs) : BlockIds[k] = block.id]

\* C6: when the scan of a well-formed text ends, the CodeBlocks built are
\* exactly the blocks of the text, each once and left to right, each with
\* the trimmed payload as content and endLine = startLine + the number of
\* lines of the trimmed payload.
C6_ExtractsExactly ==
    (~scanning /\ WellFormed(segs)) =>
        LET idx == BlockIndexes(segs) IN
        /\ Len(codeBlocks) = Len(idx)
        /\ \A n \in 1..Len(idx) :
               LET b == codeBlocks[n]
                   seg == segs[idx[n]]
               IN  /\ b.id = BlockIds[idx[n]]
                   /\ (\A i \in 1..Len(seg.file) : seg.file[i] \notin { "", ".." })
                          => b.filePath = OutputPath \o seg.file
                   /\ b.startLine = seg.startLine
                   /\ IsTrimOf(b.content, seg.payload)
                   /\ b.endLine = seg.startLine + LineCount(b.content)

\* a scan of a well-formed text has built two blocks, one of them from a
\* three-line payload wrapped in white space
C6_Witness ==
    /\ ~scanning
    /\ WellFormed(segs)
    /\ Len(codeBlocks) = 2
    /\ \E n \in 1..2 :
           /\ codeBlocks[n].endLine = codeBlocks[n].startLine + 3
           /\ codeBlocks[n].content # SegOf(codeBlocks[n]).payload

\* the files a scan of the text of ss leaves, started on the files fs0
FilesAfter(ss) ==
    SaveGeneratedCode(fs0, InitialDirs(fs0), Render(ss), 1, "none").fs

\* a block whose startLine is 0, negative or non-numeric, or whose metadata
\* is malformed
BadBlock(seg) ==
    /\ seg.kind = "block"
    /\ seg.defect # "none" \/ seg.startLine = 0

\* the same, but for an append with startLine 0
SkippedBlock(seg) ==
    /\ seg.kind = "block"
    /\ seg.defect # "none" \/ (seg.startLine = 0 /\ seg.operation # "append")

NotBad(seg) == ~BadBlock(seg)
NotSkipped(seg) == ~SkippedBlock(seg)

\* C7 as stated: every block whose startLine is 0, negative or non-numeric,
\* or whose metadata is malformed, changes no file, whatever its operation,
\* and the scan leaves the files that the text without these blocks leaves.
C7_AsStated ==
    (~scanning /\ ~faulted) => fs = FilesAfter(SelectSeq(segs, NotBad))

\* C7 as amended: the same of every block whose startLine is negative or
\* non-numeric or whose metadata is malformed, and of every block with
\* startLine 0 whose operation is not append; an append block with
\* startLine 0 is applied.
C7_SkipsBadBlocks ==
    (~scanning /\ ~faulted) => fs = FilesAfter(SelectSeq(segs, NotSkipped))

\* a scan has ended on a text with a defective block and a valid block that
\* changed a file
C7_Witness ==
    /\ ~scanning /\ ~faulted
    /\ \E k \in 1..Len(segs) : segs[k].defect # "none"
    /\ \E k \in 1..Len(segs) : ~SkippedBlock(segs[k]) /\ segs[k].kind = "block"
    /\ fs # fs0

\* the latest pass applied operation op to a block, and no file-system
\* operation failed in it
Applied(op) ==
    lastMod # NoMod /\ lastMod.operation = op /\ lastThrow = NoThrow
LastBlock == lastMod.blocks[1]
OldFile == prevFs[lastMod.filePath]
NewFile == fs[lastMod.filePath]
OldLines == Split(OldFile.data)
OthersUntouched == \A q \in FsPaths \ { lastMod.filePath } : fs[q] = prevFs[q]

\* C8: an append to an absent or empty file leaves exactly the trimmed
\* content; an append to a non-empty file leaves old, a newline and the
\* trimmed content.  No other file changes.
C8_Append ==
    Applied("append") =>
        /\ IsTrimOf(LastBlock.content, SegOf(LastBlock).payload)
        /\ NewFile.exists
        /\ IF ~OldFile.exists \/ OldFile.data = <<>>
           THEN NewFile.data = LastBlock.content
           ELSE NewFile.data = OldFile.data \o << "nl" >> \o LastBlock.content
        /\ OthersUntouched

\* an append of a payload of several lines to a file that held text
C8_Witness ==
    /\ Applied("append")
    /\ OldFile.exists /\ OldFile.data # <<>>
    /\ LineCount(LastBlock.content) >= 2
    /\ Len(NewFile.data) > Len(OldFile.data)

\* the latest pass applied op to the range [startLine, endLine] of an
\* existing file, with 1 <= startLine <= endLine <= line count
InRange(op) ==
    /\ Applied(op)
    /\ OldFile.exists
    /\ 1 <= LastBlock.startLine
    /\ LastBlock.startLine <= LastBlock.endLine
    /\ LastBlock.endLine <= Len(OldLines)

\* C9 as stated: modify replaces the range by one line equal to the
\* content: L - (endLine - startLine) lines result, line startLine is the
\* content, the lines before keep their positions, the lines after follow.
C9_AsStated ==
    InRange("modify") =>
        LET s == LastBlock.startLine
            e == LastBlock.endLine
            L == Len(OldLines)
            new == Split(NewFile.data)
        IN  /\ Len(new) = L - (e - s)
            /\ new[s] = LastBlock.content
            /\ \A i \in 1..(s - 1) : new[i] = OldLines[i]
            /\ \A i \in (e + 1)..L : new[i - (e - s)] = OldLines[i]

\* C9 as amended: modify replaces the range by the lines of the content,
\* of which there are endLine - startLine: L - 1 lines result, the lines
\* before the range keep their positions, the content's lines follow from
\* line startLine on, then the lines after the range in order.
C9_Modify ==
    InRange("modify") =>
        LET s == LastBlock.startLine
            e == LastBlock.endLine
            L == Len(OldLines)
            new == Split(NewFile.data)
        IN  /\ LineCount(LastBlock.content) = e - s
            /\ Len(new) = L - 1
            /\ new = SubSeq(OldLines, 1, s - 1)
                     \o Split(LastBlock.content)
                     \o SubSeq(OldLines, e + 1, L)
            /\ OthersUntouched

\* a modify with a two-line content and a line left after its range
C9_Witness ==
    /\ InRange("modify")
    /\ LineCount(LastBlock.content) = 2
    /\ LastBlock.endLine < Len(OldLines)

OldExisting == IF OldFile.exists THEN Split(OldFile.data) ELSE <<>>

\* C11 as stated: an insert with startLine s >= 1 leaves the content at
\* line s, the former lines 1..s-1 before it and the former lines s.. after
\* it, in order.
C11_AsStated ==
    (Applied("insert") /\ LastBlock.startLine >= 1) =>
        LET s == LastBlock.startLine
            L == Len(OldExisting)
        IN  /\ s - 1 <= L
            /\ Split(NewFile.data) = SubSeq(OldExisting, 1, s - 1)
                                     \o Split(LastBlock.content)
                                     \o SubSeq(OldExisting, s, L)

\* C11 as amended: the content is placed before former line s when the
\* file has a line s, and after the last line otherwise (a file of L lines
\* and s > L + 1: the content starts at line L + 1, not at line s; an
\* absent file has no line); every former line is kept, in order, and no
\* other file changes.
C11_Insert ==
    (Applied("insert") /\ LastBlock.startLine >= 1) =>
        LET s == LastBlock.startLine
            L == Len(OldExisting)
            at == Min(s - 1, L)
        IN  /\ NewFile.exists
            /\ Split(NewFile.data) = SubSeq(OldExisting, 1, at)
                                     \o Split(LastBlock.content)
                                     \o SubSeq(OldExisting, at + 1, L)
            /\ OthersUntouched

\* an insert of a one-line content between two lines of a file
C11_Witness ==
    /\ Applied("insert")
    /\ OldFile.exists
    /\ LET s == LastBlock.startLine
           L == Len(OldExisting)
       IN  /\ s >= 2 /\ s <= L
           /\ Len(Split(NewFile.data)) = L + 1
           /\ Split(NewFile.data)[s] = LastBlock.content
           /\ Split(NewFile.data)[s + 1] = OldExisting[s]

\* the latest pass handled a modify or delete block whose endLine exceeds
\* the number of lines of the file (none when the file was absent)
BeyondEnd ==
    /\ Applied("modify") \/ Applied("delete")
    /\ LastBlock.endLine > Len(OldExisting)

\* the first segment of the text is a modify or delete block whose endLine
\* exceeds the number of lines its file has when the scan starts
FirstBeyondEnd ==
    /\ codeBlocks # <<>>
    /\ codeBlocks[1].id = BlockIds[1]
    /\ segs[1].operation \in { "modify", "delete" }
    /\ codeBlocks[1].endLine >
           (IF fs0[codeBlocks[1].filePath].exists
            THEN Len(Split(fs0[codeBlocks[1].filePath].data)) ELSE 0)

\* C12: a pass for a modify or delete block whose endLine exceeds the line
\* count of the target file (an absent file has none) leaves every file as
\* it was, absent files absent; the scan goes on: the scan of a text that
\* starts with such a block leaves the files that the scan of the rest of
\* the text leaves.
C12_NotApplied ==
    /\ BeyondEnd => fs = prevFs
    /\ (~scanning /\ ~faulted /\ FirstBeyondEnd) => fs = FilesAfter(Tail(segs))

\* a modify or delete beyond the end of an existing file was not applied,
\* and the block after it was
C12_Witness ==
    /\ FirstBeyondEnd
    /\ fs0[PathF].exists
    /\ codeBlocks[1].startLine <= Len(Split(fs0[PathF].data))
    /\ Len(codeBlocks) = 2
    /\ Applied("append") \/ Applied("insert")
    /\ fs # prevFs
    /\ prevFs = fs0

\* the scan of the text of the single segment seg, numbered k, on files f
AloneOn(f, seg, k) ==
    SaveGeneratedCode(f, InitialDirs(f), RenderSeg(seg, k), 1, "none").fs

\* the files left by scanning the segments of ss from number k on, each as
\* a text of its own, one after the other, starting on files f
RECURSIVE OneByOne(_, _, _)
OneByOne(f, ss, k) ==
    IF k > Len(ss) THEN f
    ELSE OneByOne(AloneOn(f, ss[k], k), ss, k + 1)

Reverse(ss) == [k \in 1..Len(ss) |-> ss[Len(ss) + 1 - k]]

\* C13: the files a scan of a text leaves are those left by scanning its
\* blocks left to right, each as a text of its own, on the files the one
\* before left.
C13_OneAtATime == (~scanning /\ ~faulted) => fs = OneByOne(fs0, segs, 1)

\* two blocks changed the same file, the second one what the first had
\* left, and the other order would have left other files
C13_Witness ==
    /\ ~scanning /\ ~faulted
    /\ Len(segs) = 2 /\ Len(codeBlocks) = 2
    /\ codeBlocks[1].filePath = codeBlocks[2].filePath
    /\ prevFs # fs0 /\ fs # prevFs
    /\ fs # OneByOne(fs0, Reverse(segs), 1)
    /\ fs # AloneOn(fs0, segs[2], 2)

\* path p lies under the output root
UnderRoot(p) ==
    /\ Len(p) >= Len(OutputPath)
    /\ SubSeq(p, 1, Len(OutputPath)) = OutputPath

\* C14 as stated: every file the scan has created or changed, and every
\* directory it has created, lies under the output root, whatever the file
\* values of the blocks.
C14_AsStated ==
    /\ \A p \in FsPaths : fs[p] # fs0[p] => UnderRoot(p)
    /\ \A d \in dirs \ InitialDirs(fs0) : UnderRoot(d)

\* a file value that starts with a separator stays under the output root
C14_AbsoluteStays ==
    \A k \in 1..Len(codeBlocks) :
        SegOf(codeBlocks[k]).file = FileAbs =>
            /\ UnderRoot(codeBlocks[k].filePath)
            /\ codeBlocks[k].filePath = OutputPath \o << "abs.ts" >>

C15_PassAbandoned ==
    /\ lastThrow.fault # "none" => fs = prevFs
    /\ (lastThrow.fault # "none" /\ Exec(genText, lastIndex).found) => scanning

\* the first block of a text threw on a failing write, and the block after
\* it was applied
C15_PassWitness ==
    /\ faulted /\ lastThrow = NoThrow
    /\ Len(codeBlocks) = 2
    /\ Applied("append")
    /\ fs # prevFs /\ prevFs = fs0

(***************************************************************************)
(* C16.  The calls and the transcript of a run computed from its task, its *)
(* budget, the contents the service returned and the outcome of its latest *)
(* call only: no file, no directory and no outcome of a save is read.      *)
(***************************************************************************)
\* st: the transcript, the request, the latest generated text and the calls
\* before call i of run r
RECURSIVE DriverAlone(_, _, _, _, _, _, _)
DriverAlone(r, codeRequest, N, rs, last, i, st) ==
    IF i > 2 * N - 1 \/ i > Len(rs) + 1 THEN st
    ELSE LET isGenerator == (i % 2 = 1)
             user == IF isGenerator THEN st.request ELSE EmptyContent
             call == [run |-> r, isGenerator |-> isGenerator,
                      system |-> IF isGenerator
                                 THEN GeneratorSystem((i - 1) \div 2, codeRequest)
                                 ELSE Content("review", st.response, ""),
                      history |-> st.history, user |-> user,
                      status |-> IF i <= Len(rs) THEN "ok" ELSE last]
         IN  IF i > Len(rs) THEN [st EXCEPT !.log = Append(@, call)]
             ELSE LET a == IF rs[i] = "" THEN Fallback ELSE rs[i]
                  IN  DriverAlone(r, codeRequest, N, rs, last, i + 1,
                          [history |-> Pushed(st.history, user, a),
                           request |-> IF isGenerator THEN st.request
                                       ELSE Content("improve", st.response, a),
                           response |-> IF isGenerator THEN a ELSE st.response,
                           log |-> Append(st.log, call)])

ExpectedOf(r) ==
    DriverAlone(r, task[r], budget[r], replies[r],
                IF pc[r] = "error" THEN "failed" ELSE "pending", 1,
                [history |-> <<>>, request |-> Content("task", task[r], ""),
                 response |-> "", log |-> <<>>])

\* the run started last: the transcript is its own
Latest == IF Started(2) THEN 2 ELSE 1

\* the calls of a run, whoever issued them
Anonymous(k) == [i \in 1..Len(k) |-> [k[i] EXCEPT !.run = 0]]

\* C16: the calls of a run (their order, kinds and messages) and the
\* transcript are those computed from the task, the budget and the service
\* responses alone, whatever the files were when the run started and
\* whether its saves applied a block, skipped one or failed; so two runs
\* with the same task, budget and responses issue the same calls.
C16_NoFeedback ==
    /\ \A r \in Runs :
          (Started(r) /\ alone[r]) =>
              /\ CallsOf(r) = ExpectedOf(r).log
              /\ r = Latest => conversationHistory = ExpectedOf(r).history
    /\ \A r, q \in Runs :
          (/\ Started(r) /\ Started(q) /\ alone[r] /\ alone[q]
           /\ task[r] = task[q] /\ budget[r] = budget[q]
           /\ replies[r] = replies[q] /\ (pc[r] = "error") = (pc[q] = "error"))
          => Anonymous(CallsOf(r)) = Anonymous(CallsOf(q))

\* two runs of the same task and budget, given the same responses, have
\* completed with the same calls; the first started with no file and
\* applied its blocks, the second started on the files the first left
C16_Witness ==
    /\ pc[1] = "done" /\ pc[2] = "done" /\ alone[1] /\ alone[2]
    /\ budget[1] = 2 /\ budget[2] = 2
    /\ replies[1] = << "code", "code", "" >> /\ replies[2] = replies[1]
    /\ Anonymous(CallsOf(1)) = Anonymous(CallsOf(2))
    /\ Len(Split(fs[PathF].data)) >= 2

\* a run alone whose save failed has gone on to the review call
C16_FailedSaveWitness ==
    /\ lastThrow.run = 1 /\ pc[1] = "rev"
    /\ CallsOf(1) = ExpectedOf(1).log
    /\ Len(CallsOf(1)) = 2

\* C17 as stated: no run issues more than 5 service calls, whatever
\* iterations value it was started with.
C17_AsStated == \A r \in Runs : Len(CallsOf(r)) <= 5

\* what the code bounds the calls of a run by: its budget only
C17_BudgetOnly ==
    \A r \in Runs : (Started(r) /\ alone[r]) => Len(CallsOf(r)) <= 2 * budget[r] - 1

\* C18 as stated: at most one run is in flight at any time, and a step that
\* starts a run while another is suspended at a service call does not
\* happen: the transcript, the counter and the bound of a run in flight
\* are changed by that run only.
C18_AsStated ==
    /\ \A r, q \in Runs : (InFlight(r) /\ InFlight(q)) => r = q
    /\ \A r \in Runs : InFlight(r) => alone[r]

\* what the handler does with a continueConversation message that comes
\* while a run is suspended: the step that starts the second run leaves the
\* first in flight, empties the transcript, resets the counter and sets the
\* bound to the iterations of the message
C18_SecondRunResets ==
    [][\A r, q \in Runs :
          (InFlight(q) /\ ~Started(r) /\ Started(r)') =>
              /\ InFlight(q)' /\ InFlight(r)'
              /\ conversationHistory' = <<>>
              /\ currentIteration' = 0
              /\ maxIterations' = budget'[r]]_vars

\* C19 as stated: in every state the counter is between 0 and the bound, a
\* run is suspended at a service call only while the counter is below the
\* bound, and the iteration line shown reads i of N with 1 <= i <= N.
C19_AsStated ==
    /\ 0 <= currentIteration /\ currentIteration <= maxIterations
    /\ \A r \in Runs : InFlight(r) => currentIteration < maxIterations
    /\ 1 <= html.iteration /\ html.iteration <= html.of

\* the same where no run was started while another was in flight
C19_Alone ==
    (\A r \in Runs : alone[r]) => C19_AsStated

(***************************************************************************)
(* C20.  The save of every generated text.                                 *)
(***************************************************************************)
\* the generate calls of run r that returned, and its review calls
GenerateReturned(r) ==
    Len(SelectSeq(calls, LAMBDA c : c.run = r /\ c.isGenerator /\ c.status = "ok"))
ReviewsIssued(r) ==
    Len(SelectSeq(calls, LAMBDA c : c.run = r /\ ~c.isGenerator))

\* the generate calls of run r that returned the text with the block that
\* appends a line to f (the i'th content returned to a run answers its
\* i'th call)
CodeReturned(r) ==
    Cardinality({ i \in 1..Len(replies[r]) :
                      CallsOf(r)[i].isGenerator /\ replies[r][i] = "code" })

LinesOfF == IF fs[PathF].exists THEN Len(Split(fs[PathF].data)) ELSE 0

\* C20: a run has run the patch engine once for each of its generate calls
\* that returned, on the step on which the call returned: so before the
\* review call of the round, of which there are never more than saves, and
\* before the run ends; the text saved is the one generated (every returned
\* text with the appending block has added its line to the file, unless the
\* disk failed); and a call that returned no content saved the fallback
\* text.
C20_SavedOnce ==
    /\ \A r \in Runs :
          /\ saves[r] = GenerateReturned(r)
          /\ ReviewsIssued(r) <= saves[r]
          /\ pc[r] = "done" => saves[r] >= 1
          /\ (Started(r) /\ alone[r] /\ pc[r] # "error") =>
                 saves[r] = (Len(replies[r]) + 1) \div 2
    /\ disk = "sound" => LinesOfF = CodeReturned(1) + CodeReturned(2)
    /\ disk = "failing" => LinesOfF <= CodeReturned(1) + CodeReturned(2)

\* step by step: the step that answers a generate call of a run is the one
\* that saves, and the review call or the end of the run comes on it
C20_SaveOnReturn ==
    [][\A r \in Runs :
          /\ GenerateReturned(r)' # GenerateReturned(r) =>
                /\ pc[r] = "gen" /\ saves'[r] = saves[r] + 1
                /\ response'[r] # ""
                /\ pc'[r] = "rev" => ReviewsIssued(r)' = ReviewsIssued(r) + 1
          /\ saves'[r] # saves[r] => GenerateReturned(r)' = GenerateReturned(r) + 1
          /\ ReviewsIssued(r)' # ReviewsIssued(r) => saves'[r] = saves[r] + 1]_vars

\* the service returned no content to the first generate call of a run and
\* the text with the block to the second: the fallback text was saved, then
\* reviewed, and the block of the second text has added its line
C20_Witness ==
    /\ alone[1] /\ pc[1] = "rev" /\ budget[1] = 3
    /\ replies[1] = << "", "code", "code" >>
    /\ saves[1] = 2 /\ ReviewsIssued(1) = 2
    /\ response[1] = "code"
    /\ conversationHistory[2].content = Content("reply", Fallback, "")
    /\ LinesOfF = 1

(***************************************************************************)
(* C21, C22.  The messages of the calls of a run.                          *)
(***************************************************************************)
\* the calls of run r that are generate calls, in order
GenerateCallsOf(r) == SelectSeq(calls, LAMBDA c : c.run = r /\ c.isGenerator)

\* C21: the first generate call of a run (round 0) has the system
\* instruction built from the task of the run, every later generate call of
\* the run has the fixed instruction to enhance the code based on the
\* review: exactly one generate call of a run carries the task; a run that
\* no other run overlaps and that has completed has issued N generate
\* calls, N - 1 of them with the fixed instruction.
C21_TaskOnce ==
    \A r \in Runs :
        Started(r) =>
            LET g == GenerateCallsOf(r) IN
            /\ Len(g) >= 1
            /\ g[1].system = Content("generate", task[r], "")
            /\ \A i \in 2..Len(g) : g[i].system = Content("enhance", "", "")
            /\ CallsOf(r)[1] = g[1]
            /\ (alone[r] /\ pc[r] = "done") => Len(g) = budget[r]

\* a run of budget 3 has completed: its three generate calls have gone out,
\* the second and the third with the fixed instruction
C21_Witness ==
    /\ alone[1] /\ pc[1] = "done" /\ budget[1] = 3
    /\ Len(GenerateCallsOf(1)) = 3
    /\ GenerateCallsOf(1)[1].system.kind = "generate"
    /\ GenerateCallsOf(1)[3].system.kind = "enhance"

\* the text the service returned to call i of run r, as _generateResponse
\* returns it
ReturnedTo(r, i) == IF replies[r][i] = "" THEN Fallback ELSE replies[r][i]

\* C22: the first generate call of a run has the task as its user message;
\* a generate call that follows a review call has the user message built
\* from the text returned to the generate call before that review and from
\* the text returned to that review, and from nothing older; every review
\* call follows a generate call, has the empty user message and embeds the
\* text returned to that generate call in its system instruction.  In a
\* run that no other run overlaps every generate call but the first
\* follows a review call.
C22_Messages ==
    \A r \in Runs :
        Started(r) =>
            LET k == CallsOf(r) IN
            /\ k[1].isGenerator /\ k[1].user = Content("task", task[r], "")
            /\ \A i \in 2..Len(k) :
                  /\ ~k[i].isGenerator =>
                        /\ k[i - 1].isGenerator
                        /\ k[i].user = EmptyContent
                        /\ k[i].system = Content("review", ReturnedTo(r, i - 1), "")
                  /\ (k[i].isGenerator /\ ~k[i - 1].isGenerator) =>
                        k[i].user = Content("improve", ReturnedTo(r, i - 2),
                                                       ReturnedTo(r, i - 1))
                  /\ (k[i].isGenerator /\ alone[r]) => ~k[i - 1].isGenerator

\* the third generate call of a run has gone out: the first generated text
\* was the fallback text, the second one was not, and the user message is
\* built from the second
C22_Witness ==
    /\ alone[1] /\ Len(CallsOf(1)) = 5 /\ pc[1] = "gen"
    /\ replies[1][1] = "" /\ replies[1][3] = "code"
    /\ CallsOf(1)[3].user = Content("improve", Fallback, "code")
    /\ CallsOf(1)[5].user = Content("improve", "code", "code")
    /\ CallsOf(1)[4].system = Content("review", "code", "")

(***************************************************************************)
(* C23.  Termination of a run (specification SpecLive: every service call  *)
(* is settled).                                                            *)
(***************************************************************************)
Ended(r) == pc[r] \in { "done", "error" }

\* the ways a run ends, and where it is until then
EndsAtBudgetOrError ==
    \A r \in Runs :
        /\ Started(r) => (InFlight(r) \/ Ended(r))
        /\ pc[r] = "error" => (errorsShown[r] = 1 /\ Failures(r) = 1)
        /\ pc[r] = "done" => (errorsShown[r] = 0 /\ Failures(r) = 0)
        /\ (pc[r] = "done" /\ alone[r]) =>
              /\ saves[r] = budget[r]
              /\ r = Latest => currentIteration = budget[r]
        /\ (InFlight(r) /\ alone[r]) =>
              /\ currentIteration < budget[r]
              /\ saves[r] <= budget[r]

\* C23: every run that was started ends, given that every service call is
\* settled; it ends in the error state, with the error message shown after
\* a failed call, or it returns with no call failed; a run that no other
\* run overlaps returns after exactly N rounds (N generated texts saved,
\* the counter at N), and is suspended at a call only while the counter is
\* below N.
C23_RunEnds ==
    /\ []EndsAtBudgetOrError
    /\ \A r \in Runs : Started(r) ~> Ended(r)

\* a run of budget 3 has returned after three rounds, the counter at 3
C23_Witness ==
    /\ pc[1] = "done" /\ alone[1] /\ pc[2] = "none"
    /\ budget[1] = 3 /\ currentIteration = 3 /\ saves[1] = 3
    /\ Len(CallsOf(1)) = 5

(***************************************************************************)
(* C24, C25.  The range of the blocks the parser builds: endLine is        *)
(* startLine plus the number of lines of the trimmed content.              *)
(***************************************************************************)
\* the latest pass applied op to a block whose range passed the test of
\* lines 160 and 178
RangeApplied(op) == Applied(op) /\ RangeOk(LastBlock, OldExisting)

\* C24: an applied modify of a block with a content of k lines (k >= 1) has
\* endLine = startLine + k; k + 1 existing lines, startLine to
\* startLine + k, are replaced by the k lines of the content, so one line
\* fewer results, and the line after the k lines meant, line startLine + k
\* of the old file, is among those removed: the lines from startLine + k + 1
\* on follow the content.
C24_ModifyShrinks ==
    RangeApplied("modify") =>
        LET s == LastBlock.startLine
            k == LineCount(LastBlock.content)
            L == Len(OldLines)
            new == Split(NewFile.data)
        IN  /\ OldFile.exists /\ k >= 1
            /\ LastBlock.endLine = s + k /\ s + k <= L
            /\ Len(new) = L - 1
            /\ \A i \in 1..(s - 1) : new[i] = OldLines[i]
            /\ SubSeq(new, s, s + k - 1) = Split(LastBlock.content)
            /\ \A i \in (s + k + 1)..L : new[i - 1] = OldLines[i]
            /\ Len(new) - (s + k - 1) = L - (s + k)

\* a modify with a content of one line on a file whose line after it
\* differs from all others: that line is gone
C24_Witness ==
    /\ RangeApplied("modify")
    /\ LineCount(LastBlock.content) = 1 /\ LastBlock.startLine = 2
    /\ Len(OldLines) = 4
    /\ Split(NewFile.data) = << OldLines[1], LastBlock.content, OldLines[4] >>
    /\ \A i \in { 1, 2, 4 } : OldLines[i] # OldLines[3]

\* C25 as amended: a modify or a delete whose startLine is the number of
\* the last line of the file changes nothing, so every applied one starts
\* before the last line; an applied delete of a block with a content of k
\* lines (the empty content has one) removes the k + 1 lines
\* startLine..startLine + k, at least two, and never exactly one.  (The
\* last line is replaced or removed by a block whose range ends at it.)
C25_NeverOneLine ==
    /\ \A op \in { "modify", "delete" } :
          /\ (Applied(op) /\ OldFile.exists
                /\ LastBlock.startLine = Len(OldLines)) => fs = prevFs
          /\ RangeApplied(op) => LastBlock.startLine < Len(OldLines)
    /\ RangeApplied("delete") =>
          LET s == LastBlock.startLine
              k == LineCount(LastBlock.content)
              L == Len(OldLines)
              kept == SubSeq(OldLines, 1, s - 1) \o SubSeq(OldLines, s + k + 1, L)
          IN  /\ k >= 1 /\ s + k <= L
              /\ Len(kept) = L - (k + 1) /\ Len(kept) <= L - 2
              /\ IF kept = <<>> THEN NewFile.data = <<>>
                 ELSE Split(NewFile.data) = kept

\* C25 as stated: the same, and no applied modify or delete changes the
\* last line of the file: the file ends with the line it ended with.
C25_AsStated ==
    /\ C25_NeverOneLine
    /\ \A op \in { "modify", "delete" } :
          RangeApplied(op) =>
              LET new == Split(NewFile.data) IN
              /\ NewFile.data # <<>>
              /\ new[Len(new)] = OldLines[Len(OldLines)]

\* a delete with the empty content addressed at the last line of a file of
\* three lines was not applied
C25_Witness ==
    /\ Applied("delete") /\ OldFile.exists
    /\ LastBlock.content = <<>>
    /\ Len(OldLines) = 3 /\ LastBlock.startLine = 3
    /\ fs = prevFs

\* a delete with the empty content addressed at the line before the last
\* has removed both
C25_LastLineRemoved ==
    /\ RangeApplied("delete") /\ LastBlock.content = <<>>
    /\ Len(OldLines) = 3 /\ LastBlock.startLine = 2
    /\ Split(NewFile.data) = << OldLines[1] >>

\* C26: the step on which a review call returns changes no file and no
\* directory and is no save, whatever the review: the text returned to a
\* review call is one in which the parser finds a well-formed block.
C26_ReviewNotSaved ==
    [][\A r \in Runs :
          (pc[r] = "rev" /\ replies'[r] # replies[r]) =>
              /\ LET content == replies'[r][Len(replies'[r])] IN
                 Exec(TextOf(IF content = "" THEN Fallback ELSE content), 1).found
              /\ fs' = fs /\ dirs' = dirs
              /\ saves' = saves]_vars

\* a review with a well-formed block that appends to f has returned to a
\* run whose generated text held no block: there is no file f
C26_Witness ==
    /\ replies[1] = << "", "code" >> /\ pc[1] = "gen" /\ alone[1]
    /\ Exec(TextOf("code"), 1).found
    /\ ~fs[PathF].exists
    /\ dirs = Ancestors(OutputPath)

\* C27: when a call of a run that no other run overlapped has failed, the
\* transcript is the one the call was issued with, and holds the exchanges
\* of the earlier calls of the run, all successful, in order: for the j'th
\* its user message and the text returned to it.
C27_FailureAppendsNothing ==
    \A r \in Runs :
        (pc[r] = "error" /\ alone[r] /\ r = Latest) =>
            LET k == CallsOf(r)
                n == Len(k)
            IN  /\ k[n].status = "failed"
                /\ conversationHistory = k[n].history
                /\ Len(conversationHistory) = 2 * (n - 1)
                /\ \A j \in 1..(n - 1) :
                      /\ k[j].status = "ok"
                      /\ conversationHistory[2 * j - 1] =
                            [role |-> "user", content |-> k[j].user]
                      /\ conversationHistory[2 * j] =
                            [role |-> "assistant",
                             content |-> Content("reply", ReturnedTo(r, j), "")]

\* the second generate call of a run has failed: the transcript holds the
\* exchanges of the first generate call and of the review
C27_Witness ==
    /\ pc[1] = "error" /\ alone[1] /\ pc[2] = "none"
    /\ Len(CallsOf(1)) = 3 /\ CallsOf(1)[3].status = "failed"
    /\ Len(conversationHistory) = 4
    /\ conversationHistory[4].content = Content("reply", "code", "")

\* the latest pass was for a block whose operation is none of the four
UnknownOperation == lastMod # NoMod /\ lastMod.operation \notin FourOps

\* the first segment of the text is such a block, and the parser matched it
FirstUnknown ==
    /\ codeBlocks # <<>>
    /\ codeBlocks[1].id = BlockIds[1]
    /\ segs[1].kind = "block" /\ segs[1].operation \notin FourOps

\* C28: the pass for a block whose operation is none of append, modify,
\* insert, delete is one for a matched block (its CodeBlock is built, the
\* latest one) and leaves every file as it was: the target is not created
\* when absent and keeps its content when it exists; and the scan of a text
\* that starts with such a block leaves the files the text without it
\* leaves.
C28_UnknownOperation ==
    /\ UnknownOperation =>
          /\ LastBlock = codeBlocks[Len(codeBlocks)]
          /\ SegOf(LastBlock).operation = lastMod.operation
          /\ NewFile = OldFile
          /\ fs = prevFs
    /\ (~scanning /\ ~faulted /\ FirstUnknown) => fs = FilesAfter(Tail(segs))

\* a block with the operation rename on the absent f.ts was passed over and
\* the append after it has created the file
C28_Witness ==
    /\ FirstUnknown /\ ~faulted /\ ~scanning
    /\ segs[1].operation = "rename" /\ segs[1].startLine = 1
    /\ ~fs0[PathF].exists
    /\ Len(codeBlocks) = 2 /\ Applied("append")
    /\ prevFs = fs0 /\ fs[PathF].exists

\* C29 as stated: in the conversation rendered from the transcript of a run
\* that no other run overlapped, the entry of the text returned to the j'th
\* call is labelled Generator when the call was a generate call and
\* Reviewer when it was a review call.
C29_AsStated ==
    \A r \in Runs :
        (Started(r) /\ alone[r] /\ r = Latest) =>
            \A j \in 1..(Len(conversationHistory) \div 2) :
                FormatConversation(conversationHistory)[2 * j].speaker =
                    (IF CallsOf(r)[j].isGenerator THEN "Generator" ELSE "Reviewer")

\* what the code renders: the assistant entries are at the odd indexes
\* (from 0) of the transcript, where index % 4 is never 2, so every one is
\* labelled Reviewer and no entry is labelled Generator
C29_AllReviewer ==
    \A i \in 1..Len(conversationHistory) :
        FormatConversation(conversationHistory)[i].speaker =
            (IF i % 2 = 1 THEN "User" ELSE "Reviewer")

(***************************************************************************)
(* C30: after any sequence of createOrShow and dispose calls at most one   *)
(* panel is live.  createOrShow creates a panel only when currentPanel is  *)
(* undefined, and then the panel is a new one and becomes currentPanel;    *)
(* otherwise it reveals the current panel and creates none.  dispose sets  *)
(* currentPanel to undefined, so that the next createOrShow creates.       *)
(***************************************************************************)
PanelsCreated == Len(panelColumn)

OnePanelLive ==
    /\ Cardinality(panels) <= 1
    /\ panels = IF currentPanel = Undefined THEN {} ELSE { currentPanel }

CreateOrShowStep ==
    IF currentPanel = Undefined
    THEN /\ PanelsCreated' = PanelsCreated + 1
         /\ currentPanel' = PanelsCreated'
         /\ currentPanel' \notin 1..PanelsCreated
         /\ panels' = { currentPanel' }
    ELSE /\ PanelsCreated' = PanelsCreated
         /\ currentPanel' = currentPanel
         /\ panels' = panels

DisposeStep ==
    /\ currentPanel' = Undefined
    /\ panels' = {}

C30_OnePanel ==
    /\ []OnePanelLive
    /\ [][panelOps' # panelOps =>
             LET call == panelOps'[Len(panelOps')] IN
                 /\ call.op = "createOrShow" => CreateOrShowStep
                 /\ call.op = "dispose" => DisposeStep]_vars

\* a panel was created, revealed and disposed, and a second one created
C30_Witness ==
    /\ PanelsCreated = 2
    /\ currentPanel = 2
    /\ panels = { 2 }
    /\ \E i \in 1..Len(panelOps) :
           panelOps[i].op = "createOrShow" /\ panelOps[i].before = 1
    /\ \E i \in 1..Len(panelOps) :
           panelOps[i].op = "dispose" /\ panelOps[i].panel = 1

=============================================================================
